---- MODULE Spec2Model ----
(***************************************************************************)
(* Model of scripts/multi-chrome/generate_icons.py: the hue rotation       *)
(* helper adjust_hue, the renderer create_chrome_icon and the batch driver *)
(* under __main__.                                                         *)
(*                                                                         *)
(* Python floats are IEEE-754 binary64.  The colour arithmetic of          *)
(* adjust_hue truncates with int(), so the result depends on the last bit  *)
(* of every intermediate value; the model therefore computes every float   *)
(* operation exactly and rounds it to 53 significant bits, ties to even.   *)
(* Magnitudes stay between 2^-120 and 2^4, so subnormals, infinities and   *)
(* NaN never arise and are not modelled.                                   *)
(***************************************************************************)
EXTENDS Integers, Sequences, FiniteSets, TLC

(***************************************************************************)
(* Natural numbers of arbitrary size: little-endian sequences of limbs in  *)
(* base 2^14, without leading zero limbs (zero is the empty sequence).     *)
(***************************************************************************)
LimbBits == 14
Base == 16384
Precision == 53

RECURSIVE Pow2(_)
Pow2(n) == IF n = 0 THEN 1 ELSE 2 * Pow2(n - 1)

RECURSIVE BNorm(_)
BNorm(a) ==
    IF a = <<>> THEN <<>>
    ELSE IF a[Len(a)] = 0 THEN BNorm(SubSeq(a, 1, Len(a) - 1))
    ELSE a

RECURSIVE BFromInt(_)
BFromInt(n) == IF n = 0 THEN <<>> ELSE <<n % Base>> \o BFromInt(n \div Base)

RECURSIVE BToInt(_)
BToInt(a) == IF a = <<>> THEN 0 ELSE a[1] + Base * BToInt(Tail(a))

Limb(a, k) == IF k <= Len(a) THEN a[k] ELSE 0

RECURSIVE BAddC(_, _, _, _)
BAddC(a, b, k, carry) ==
    IF k > Len(a) /\ k > Len(b)
    THEN IF carry = 0 THEN <<>> ELSE <<carry>>
    ELSE LET t == Limb(a, k) + Limb(b, k) + carry
         IN  <<t % Base>> \o BAddC(a, b, k + 1, t \div Base)

BAdd(a, b) == BAddC(a, b, 1, 0)

RECURSIVE BSubC(_, _, _, _)
BSubC(a, b, k, borrow) ==
    IF k > Len(a) THEN <<>>
    ELSE LET t == Limb(a, k) - Limb(b, k) - borrow
         IN  IF t < 0 THEN <<t + Base>> \o BSubC(a, b, k + 1, 1)
             ELSE <<t>> \o BSubC(a, b, k + 1, 0)

\* a - b for a >= b
BSub(a, b) == BNorm(BSubC(a, b, 1, 0))

RECURSIVE BCmpFrom(_, _, _)
BCmpFrom(a, b, k) ==
    IF k = 0 THEN 0
    ELSE IF a[k] < b[k] THEN -1
    ELSE IF a[k] > b[k] THEN 1
    ELSE BCmpFrom(a, b, k - 1)

BCmp(a, b) ==
    IF Len(a) < Len(b) THEN -1
    ELSE IF Len(a) > Len(b) THEN 1
    ELSE BCmpFrom(a, b, Len(a))

RECURSIVE BMulSmallC(_, _, _, _)
BMulSmallC(a, n, k, carry) ==
    IF k > Len(a)
    THEN IF carry = 0 THEN <<>> ELSE <<carry>>
    ELSE LET t == a[k] * n + carry
         IN  <<t % Base>> \o BMulSmallC(a, n, k + 1, t \div Base)

\* a * n for 0 <= n < Base
BMulSmall(a, n) == IF n = 0 THEN <<>> ELSE BMulSmallC(a, n, 1, 0)

RECURSIVE BMul(_, _)
BMul(a, b) ==
    IF a = <<>> \/ b = <<>> THEN <<>>
    ELSE LET rest == BMul(a, Tail(b))
         IN  BAdd(BMulSmall(a, b[1]), IF rest = <<>> THEN <<>> ELSE <<0>> \o rest)

RECURSIVE BDivSmallC(_, _, _, _)
BDivSmallC(a, n, k, rem) ==
    IF k = 0 THEN <<>>
    ELSE LET t == rem * Base + a[k]
         IN  BDivSmallC(a, n, k - 1, t % n) \o <<t \div n>>

\* a \div n for 0 < n <= Base
BDivSmall(a, n) == BNorm(BDivSmallC(a, n, Len(a), 0))

BShl(a, n) ==
    IF a = <<>> THEN <<>>
    ELSE [k \in 1..(n \div LimbBits) |-> 0] \o BMulSmall(a, Pow2(n % LimbBits))

BShr(a, n) ==
    IF n \div LimbBits >= Len(a) THEN <<>>
    ELSE BDivSmall(SubSeq(a, (n \div LimbBits) + 1, Len(a)), Pow2(n % LimbBits))

RECURSIVE IntBitLen(_)
IntBitLen(n) == IF n = 0 THEN 0 ELSE 1 + IntBitLen(n \div 2)

BitLen(a) == IF a = <<>> THEN 0 ELSE LimbBits * (Len(a) - 1) + IntBitLen(a[Len(a)])

BOdd(a) == a # <<>> /\ a[1] % 2 = 1

\* <<floor(a * 2^n / b), a * 2^n mod b>> for the quotient q and remainder
\* rem of a by b: one binary digit of long division per step.  (Len(q) only
\* makes the quotient be computed at every step.)
RECURSIVE BLongDiv(_, _, _, _)
BLongDiv(q, rem, b, n) ==
    IF n = 0 \/ Len(q) < 0 THEN <<q, rem>>
    ELSE IF BCmp(BAdd(rem, rem), b) >= 0
    THEN BLongDiv(BAdd(BAdd(q, q), <<1>>), BSub(BAdd(rem, rem), b), b, n - 1)
    ELSE BLongDiv(BAdd(q, q), BAdd(rem, rem), b, n - 1)

(***************************************************************************)
(* binary64 values: sg * m * 2^e with sg in {1, -1} and m either zero or   *)
(* of exactly 53 bits.  Each operation computes the exact result and       *)
(* rounds it once, ties to even.                                           *)
(***************************************************************************)
FZero == [sg |-> 1, m |-> <<>>, e |-> 0]
F1 == [sg |-> 1, m |-> <<0, 0, 0, 1024>>, e |-> -52]
F2 == [sg |-> 1, m |-> <<0, 0, 0, 1024>>, e |-> -51]
F4 == [sg |-> 1, m |-> <<0, 0, 0, 1024>>, e |-> -50]
F6 == [sg |-> 1, m |-> <<0, 0, 0, 1536>>, e |-> -50]
F255 == [sg |-> 1, m |-> <<0, 0, 0, 2040>>, e |-> -45]

FPack(sg, m, e) == [sg |-> sg, m |-> m, e |-> e]

\* q1 has 53 or, after a carry out of the rounding, 54 bits
FRenorm(sg, q1, e) ==
    IF BitLen(q1) > Precision THEN FPack(sg, BShr(q1, 1), e + 1) ELSE FPack(sg, q1, e)

\* c compares the bits cut off with one half of the last place kept
FRoundUp(sg, q, e, c) ==
    FRenorm(sg, IF c > 0 \/ (c = 0 /\ BOdd(q)) THEN BAdd(q, <<1>>) ELSE q, e)

\* q is M without its sh lowest bits
FRoundCut(sg, M, e, sh, q) ==
    FRoundUp(sg, q, e + sh, BCmp(BSub(M, BShl(q, sh)), BShl(<<1>>, sh - 1)))

FRoundLen(sg, M, e, L) ==
    IF L = 0 THEN FZero
    ELSE IF L <= Precision THEN FPack(sg, BShl(M, Precision - L), e - (Precision - L))
    ELSE FRoundCut(sg, M, e, L - Precision, BShr(M, L - Precision))

\* sg * M * 2^e rounded to 53 significant bits, ties to even
FRound(sg, M, e) == FRoundLen(sg, M, e, BitLen(M))

FInt(n) == IF n < 0 THEN FRound(-1, BFromInt(-n), 0) ELSE FRound(1, BFromInt(n), 0)

FNeg(x) == IF x.m = <<>> THEN x ELSE [x EXCEPT !.sg = -x.sg]

\* X and Y are the magnitudes at the common exponent e0, c compares them
FAddSigned(sx, sy, X, Y, e0, c) ==
    IF sx # sy /\ c = 0 THEN FZero
    ELSE FRound(IF sx = sy \/ c > 0 THEN sx ELSE sy,
                IF sx = sy THEN BAdd(X, Y) ELSE IF c > 0 THEN BSub(X, Y) ELSE BSub(Y, X),
                e0)

FAddAligned(sx, sy, X, Y, e0) == FAddSigned(sx, sy, X, Y, e0, BCmp(X, Y))

FAddAt(x, y, e0) ==
    FAddAligned(x.sg, y.sg, BShl(x.m, x.e - e0), BShl(y.m, y.e - e0), e0)

FAdd(x, y) ==
    IF x.m = <<>> THEN y
    ELSE IF y.m = <<>> THEN x
    ELSE FAddAt(x, y, IF x.e < y.e THEN x.e ELSE y.e)

FSub(x, y) == FAdd(x, FNeg(y))

FMul(x, y) ==
    IF x.m = <<>> \/ y.m = <<>> THEN FZero
    ELSE FRound(x.sg * y.sg, BMul(x.m, y.m), x.e + y.e)

\* qr is <<quotient, remainder>>: the quotient doubled, with a last bit
\* that tells whether the division left a remainder
FDivRound(sg, qr, e) ==
    FRound(sg, BAdd(BAdd(qr[1], qr[1]), IF qr[2] = <<>> THEN <<>> ELSE <<1>>), e)

FDivFrom(x, y, first) ==
    FDivRound(x.sg * y.sg,
              BLongDiv(IF first THEN <<1>> ELSE <<>>,
                       IF first THEN BSub(x.m, y.m) ELSE x.m,
                       y.m, Precision + 2),
              x.e - y.e - (Precision + 3))

\* x / y for y # 0
FDiv(x, y) == IF x.m = <<>> THEN FZero ELSE FDivFrom(x, y, BCmp(x.m, y.m) >= 0)

\* -1, 0, 1 as x < y, x = y, x > y
FCmp(x, y) ==
    IF x = y THEN 0
    ELSE IF x.m = <<>> THEN -y.sg
    ELSE IF y.m = <<>> THEN x.sg
    ELSE IF x.sg # y.sg THEN x.sg
    ELSE IF x.e # y.e THEN (IF x.e > y.e THEN x.sg ELSE -x.sg)
    ELSE x.sg * BCmp(x.m, y.m)

FMax(x, y) == IF FCmp(y, x) > 0 THEN y ELSE x
FMin(x, y) == IF FCmp(y, x) < 0 THEN y ELSE x

\* int(x): truncation toward zero, for |x| < 2^31
FTrunc(x) ==
    IF x.m = <<>> THEN 0
    ELSE IF x.e >= 0 THEN x.sg * BToInt(BShl(x.m, x.e))
    ELSE x.sg * BToInt(BShr(x.m, -x.e))

\* frac is fmod(x, 1.0), which is exact and has the sign of x; Python adds
\* 1.0 (rounding) when it is negative
FModAdjust(frac) == IF frac.m # <<>> /\ frac.sg < 0 THEN FAdd(frac, F1) ELSE frac

FModFrom(x, ip) == FModAdjust(FRound(x.sg, BSub(x.m, BShl(ip, -x.e)), x.e))

\* x % 1.0
FMod1(x) == IF x.m = <<>> \/ x.e >= 0 THEN FZero ELSE FModFrom(x, BShr(x.m, -x.e))

(***************************************************************************)
(* colorsys.rgb_to_hsv and colorsys.hsv_to_rgb, as adjust_hue calls them.  *)
(* A colour is a triple <<r, g, b>> of integers; r, g, b, h, s, v and the  *)
(* other names of colorsys are floats.  Each function is a chain of        *)
(* operators, one per group of assignments, whose parameters are the       *)
(* variables assigned so far.                                              *)
(***************************************************************************)
\* h = bc-gc, 2.0+rc-bc or 4.0+gc-rc; h = (h/6.0) % 1.0; return h, s, v
rgb_to_hsv_h(r, g, maxc, s, rc, gc, bc) ==
    << FMod1(FDiv(IF r = maxc THEN FSub(bc, gc)
                  ELSE IF g = maxc THEN FSub(FAdd(F2, rc), bc)
                  ELSE FSub(FAdd(F4, gc), rc),
                  F6)),
       s, maxc >>

\* s, rc, gc, bc
rgb_to_hsv_s(r, g, b, maxc, rangec) ==
    rgb_to_hsv_h(r, g, maxc,
                 FDiv(rangec, maxc),
                 FDiv(FSub(maxc, r), rangec),
                 FDiv(FSub(maxc, g), rangec),
                 FDiv(FSub(maxc, b), rangec))

\* rangec, v; if minc == maxc: return 0.0, 0.0, v
rgb_to_hsv_range(r, g, b, maxc, minc) ==
    IF minc = maxc THEN <<FZero, FZero, maxc>>
    ELSE rgb_to_hsv_s(r, g, b, maxc, FSub(maxc, minc))

rgb_to_hsv(r, g, b) == rgb_to_hsv_range(r, g, b, FMax(FMax(r, g), b), FMin(FMin(r, g), b))

\* i = i%6 and the six returns
hsv_to_rgb_pick(i6, v, p, q, t) ==
    CASE i6 = 0 -> <<v, t, p>>
      [] i6 = 1 -> <<q, v, p>>
      [] i6 = 2 -> <<p, v, t>>
      [] i6 = 3 -> <<p, q, v>>
      [] i6 = 4 -> <<t, p, v>>
      [] i6 = 5 -> <<v, p, q>>

\* p, q, t
hsv_to_rgb_pqt(s, v, i, f) ==
    hsv_to_rgb_pick(i % 6, v,
                    FMul(v, FSub(F1, s)),
                    FMul(v, FSub(F1, FMul(s, f))),
                    FMul(v, FSub(F1, FMul(s, FSub(F1, f)))))

\* f = (h*6.0) - i
hsv_to_rgb_f(s, v, h6, i) == hsv_to_rgb_pqt(s, v, i, FSub(h6, FInt(i)))

\* i = int(h*6.0)
hsv_to_rgb_i(s, v, h6) == hsv_to_rgb_f(s, v, h6, FTrunc(h6))

hsv_to_rgb(h, s, v) == IF s = FZero THEN <<v, v, v>> ELSE hsv_to_rgb_i(s, v, FMul(h, F6))

\* int(x * 255) of line 11
ToChannel(x) == FTrunc(FMul(x, F255))

\* line 11
adjust_hue_return(rgb) == <<ToChannel(rgb[1]), ToChannel(rgb[2]), ToChannel(rgb[3])>>

\* lines 9-10
adjust_hue_shift(hsv, hue_shift) ==
    adjust_hue_return(hsv_to_rgb(FMod1(FAdd(hsv[1], hue_shift)), hsv[2], hsv[3]))

\* variant: the colour is returned as it came
adjust_hue_unshifted(c, hue_shift) == c

\* lines 7-8
adjust_hue(c, hue_shift) ==
    adjust_hue_shift(rgb_to_hsv(FDiv(FInt(c[1]), F255),
                                FDiv(FInt(c[2]), F255),
                                FDiv(FInt(c[3]), F255)),
                     hue_shift)

(***************************************************************************)
(* Constants of create_chrome_icon and of the batch driver.                *)
(***************************************************************************)
size == 256
cx == size \div 2
cy == size \div 2
r_outer == 120
r_white == 58
r_inner == 50
YAdjust == 8
ShadowOffset == 2
NumIcons == 20
HueSteps == 20

color_red == <<219, 68, 55>>
color_yellow == <<244, 180, 0>>
color_green == <<15, 157, 88>>
color_blue == <<66, 133, 244>>
color_white == <<255, 255, 255>>
shadow_color == <<0, 0, 0, 128>>
icons_dir == "icons"
IcoSizes == <<<<256, 256>>, <<128, 128>>, <<64, 64>>, <<32, 32>>>>

BBoxAround(rad) == <<cx - rad, cy - rad, cx + rad, cy + rad>>
bbox_outer == BBoxAround(r_outer)
bbox_white == BBoxAround(r_white)
bbox_inner == BBoxAround(r_inner)

\* variant: range(1, 20)
LoopRangeShort == 1..(NumIcons - 1)

\* range(1, 21)
LoopRange == 1..NumIcons

\* variant: hue_shift = (i - 1) * (1.0 / 20.0)
HueShiftOfZeroBased(i) == FMul(FInt(i - 1), FDiv(F1, FInt(HueSteps)))

\* hue_shift = i * (1.0 / 20.0)
HueShiftOf(i) == FMul(FInt(i), FDiv(F1, FInt(HueSteps)))

\* os.path.join(icons_dir, f"icon_{i}.ico")
output_path(i) == <<icons_dir, i>>

\* the colours the three sectors are filled with
SectorFills(hue_shift) ==
    <<adjust_hue(color_red, hue_shift),
      adjust_hue(color_yellow, hue_shift),
      adjust_hue(color_green, hue_shift)>>

\* variant: color_blue is shifted like the other three
InnerFillShifted(hue_shift) == adjust_hue(color_blue, hue_shift)

\* the colour the innermost disc is filled with
InnerFill(hue_shift) == color_blue

DrawOp(op, xy, arg, fill) == [op |-> op, xy |-> xy, arg |-> arg, fill |-> fill]

\* lines 41-51: three sectors, the white disc and the inner disc
ShapesFilled(f, inner) ==
    << DrawOp("pieslice", bbox_outer, <<210, 330>>, f[1]),
       DrawOp("pieslice", bbox_outer, <<330, 90>>, f[2]),
       DrawOp("pieslice", bbox_outer, <<90, 210>>, f[3]),
       DrawOp("ellipse", bbox_white, <<0, 360>>, color_white),
       DrawOp("ellipse", bbox_inner, <<0, 360>>, inner) >>

Shapes(hue_shift) == ShapesFilled(SectorFills(hue_shift), InnerFill(hue_shift))

\* lines 62-67, for bbox = (left, top, right, bottom)
text_w(bbox) == bbox[3] - bbox[1]
text_h(bbox) == bbox[4] - bbox[2]
text_x(bbox) == cx - text_w(bbox) \div 2
\* variant: no adjustment of y
text_y_centred(bbox) == cy - text_h(bbox) \div 2
text_y(bbox) == cy - text_h(bbox) \div 2 - YAdjust

\* lines 71-72: the shadow, then the white text
TextOps(number, bbox) ==
    << DrawOp("text", <<text_x(bbox) + ShadowOffset, text_y(bbox) + ShadowOffset>>,
              <<number>>, shadow_color),
       DrawOp("text", <<text_x(bbox), text_y(bbox)>>, <<number>>, color_white) >>

\* what image.save stores of the canvas: the fills of the five shapes, the
\* label and the embedded resolutions (glyph rendering is left out)
ImageOf(cv) ==
    [sectors |-> <<cv[1].fill, cv[2].fill, cv[3].fill>>,
     ring    |-> cv[4].fill,
     inner   |-> cv[5].fill,
     label   |-> cv[7].arg[1],
     sizes   |-> IcoSizes]

(***************************************************************************)
(* Bounds of the environment's answers and of the sampled inputs.          *)
(***************************************************************************)
MaxBearing == 1
MaxTextW == 3
MaxTextH == 3
MaxGrid == 2
GridStep == 15

\* the boxes draw.textbbox((0, 0), text, font) may measure
BBoxes ==
    { <<l, t, l + w, t + h>> :
        l \in 0..MaxBearing, t \in 0..MaxBearing, w \in 1..MaxTextW, h \in 1..MaxTextH }

BaseColors == {color_red, color_yellow, color_green, color_blue}
GridChannels == { k * GridStep : k \in 0..MaxGrid }
Colors == BaseColors \cup { <<r, g, b>> : r \in GridChannels, g \in GridChannels, b \in GridChannels }
Shifts == { HueShiftOf(k) : k \in 0..NumIcons }

VARIABLES
    pc,            \* position of the script
    i,             \* loop variable of the for loop (0 before the first iteration)
    dirExists,     \* the directory icons exists
    fontInstalled, \* arialbd.ttf can be opened
    fs,            \* files under icons: output path -> stored image
    printed,       \* the final message was printed
    hue_shift,     \* argument of the running create_chrome_icon call
    canvas,        \* draw operations on the image of the running call
    font,          \* font of the running call
    measured,      \* box draw.textbbox returned in the running call
    calls,         \* history: the create_chrome_icon calls made so far
    written,       \* history: <<path, image>> of every completed save
    failedAt,      \* history: index whose save raised, 0 if none
    hpc, hcolor, hshift, hout, hback   \* harness applying adjust_hue

batchVars == <<pc, i, dirExists, fontInstalled, fs, printed, hue_shift, canvas,
               font, measured, calls, written, failedAt>>
hueVars == <<hpc, hcolor, hshift, hout, hback>>
vars == <<pc, i, dirExists, fontInstalled, fs, printed, hue_shift, canvas,
          font, measured, calls, written, failedAt, hpc, hcolor, hshift, hout, hback>>

NoColor == <<0, 0, 0>>

HueIdle ==
    /\ hpc = "off" /\ hcolor = NoColor /\ hshift = FZero
    /\ hout = NoColor /\ hback = NoColor

BatchIdle ==
    /\ pc = "off" /\ i = 0 /\ dirExists = FALSE /\ fontInstalled = FALSE
    /\ fs = <<>> /\ printed = FALSE /\ hue_shift = FZero /\ canvas = <<>>
    /\ font = "none" /\ measured = <<>> /\ calls = <<>> /\ written = <<>>
    /\ failedAt = 0

\* the script starts in a working directory without output files; the
\* directory icons may or may not exist already
Init ==
    /\ pc = "makedirs"
    /\ i = 0
    /\ dirExists \in BOOLEAN
    /\ fontInstalled \in BOOLEAN
    /\ fs = <<>>
    /\ printed = FALSE
    /\ hue_shift = FZero
    /\ canvas = <<>>
    /\ font = "none"
    /\ measured = <<>>
    /\ calls = <<>>
    /\ written = <<>>
    /\ failedAt = 0
    /\ HueIdle

\* os.makedirs(icons_dir, exist_ok=True) returns
MakeDirsOk ==
    /\ pc = "makedirs"
    /\ dirExists' = TRUE
    /\ pc' = "loop"
    /\ UNCHANGED <<i, fontInstalled, fs, printed, hue_shift, canvas, font, measured, calls,
                   written, failedAt>>
    /\ UNCHANGED hueVars

\* os.makedirs raises: the exception is not caught and ends the script
MakeDirsFail ==
    /\ pc = "makedirs"
    /\ ~dirExists
    /\ pc' = "aborted"
    /\ UNCHANGED <<i, dirExists, fontInstalled, fs, printed, hue_shift, canvas, font, measured,
                   calls, written, failedAt>>
    /\ UNCHANGED hueVars

\* next iteration of the loop: the call of create_chrome_icon up to the
\* inner disc (lines 14-51)
BeginRender ==
    /\ pc = "loop"
    /\ i + 1 \in LoopRange
    /\ i' = i + 1
    /\ hue_shift' = HueShiftOf(i + 1)
    /\ calls' = Append(calls, [number |-> i + 1, hue_shift |-> HueShiftOf(i + 1),
                               output_path |-> output_path(i + 1)])
    /\ canvas' = Shapes(hue_shift')
    /\ pc' = "font"
    /\ UNCHANGED <<dirExists, fontInstalled, fs, printed, font, measured, written, failedAt>>
    /\ UNCHANGED hueVars

\* ImageFont.truetype("arialbd.ttf", 60) returns
LoadFont ==
    /\ pc = "font"
    /\ fontInstalled
    /\ font' = "arialbd.ttf"
    /\ pc' = "text"
    /\ UNCHANGED <<i, dirExists, fontInstalled, fs, printed, hue_shift, canvas,
                   measured, calls, written, failedAt>>
    /\ UNCHANGED hueVars

\* variant: no except clause, the IOError ends the script
LoadFontRaise ==
    /\ pc = "font"
    /\ ~fontInstalled
    /\ pc' = "aborted"
    /\ UNCHANGED <<i, dirExists, fontInstalled, fs, printed, hue_shift, canvas, font,
                   measured, calls, written, failedAt>>
    /\ UNCHANGED hueVars

\* ImageFont.truetype raises IOError: except IOError, load_default()
LoadFontFallback ==
    /\ pc = "font"
    /\ ~fontInstalled
    /\ font' = "default"
    /\ pc' = "text"
    /\ UNCHANGED <<i, dirExists, fontInstalled, fs, printed, hue_shift, canvas,
                   measured, calls, written, failedAt>>
    /\ UNCHANGED hueVars

\* lines 59-72: measure the label, draw the shadow and the text
DrawText ==
    /\ pc = "text"
    /\ \E bbox \in BBoxes :
          /\ measured' = bbox
          /\ canvas' = canvas \o TextOps(i, bbox)
    /\ pc' = "save"
    /\ UNCHANGED <<i, dirExists, fontInstalled, fs, printed, hue_shift, font, calls,
                   written, failedAt>>
    /\ UNCHANGED hueVars

\* variant: the call returns before the file is written
SaveDeferred ==
    /\ pc = "save"
    /\ dirExists
    /\ canvas' = <<>>
    /\ font' = "none"
    /\ measured' = <<>>
    /\ pc' = "loop"
    /\ UNCHANGED <<i, dirExists, fontInstalled, fs, printed, hue_shift, calls, written,
                   failedAt>>
    /\ UNCHANGED hueVars

\* image.save returns; create_chrome_icon returns to the loop
SaveOk ==
    /\ pc = "save"
    /\ dirExists
    /\ LET path == calls[Len(calls)].output_path
       IN  /\ fs' = [p \in DOMAIN fs \cup {path} |->
                        IF p = path THEN ImageOf(canvas) ELSE fs[p]]
           /\ written' = Append(written, <<path, ImageOf(canvas)>>)
    /\ canvas' = <<>>
    /\ font' = "none"
    /\ measured' = <<>>
    /\ pc' = "loop"
    /\ UNCHANGED <<i, dirExists, fontInstalled, printed, hue_shift, calls, failedAt>>
    /\ UNCHANGED hueVars

\* variant: the exception of image.save is swallowed and the loop goes on
SaveFailSwallowed ==
    /\ pc = "save"
    /\ failedAt' = i
    /\ canvas' = <<>>
    /\ font' = "none"
    /\ measured' = <<>>
    /\ pc' = "loop"
    /\ UNCHANGED <<i, dirExists, fontInstalled, fs, printed, hue_shift, calls, written>>
    /\ UNCHANGED hueVars

\* image.save raises: nothing catches the exception, the script ends
SaveFail ==
    /\ pc = "save"
    /\ failedAt' = i
    /\ pc' = "aborted"
    /\ UNCHANGED <<i, dirExists, fontInstalled, fs, printed, hue_shift, canvas, font, measured,
                   calls, written>>
    /\ UNCHANGED hueVars

\* the loop is exhausted: print the message
PrintReport ==
    /\ pc = "loop"
    /\ i + 1 \notin LoopRange
    /\ printed' = TRUE
    /\ pc' = "done"
    /\ UNCHANGED <<i, dirExists, fontInstalled, fs, hue_shift, canvas, font, measured, calls,
                   written, failedAt>>
    /\ UNCHANGED hueVars

Next ==
    \/ MakeDirsOk
    \/ MakeDirsFail
    \/ BeginRender
    \/ LoadFont
    \/ LoadFontFallback
    \/ DrawText
    \/ SaveOk
    \/ SaveFail
    \/ PrintReport

Spec == Init /\ [][Next]_vars

\* runs in which neither os.makedirs nor image.save raises
NextOk ==
    \/ MakeDirsOk
    \/ BeginRender
    \/ LoadFont
    \/ LoadFontFallback
    \/ DrawText
    \/ SaveOk
    \/ PrintReport

\* The interpreter runs the script to its end: a step is taken whenever one
\* is possible.  Every step of NextOk changes pc, and NextOk is enabled
\* exactly when CanAdvance holds, so WF_pc(Advance) is WF_vars(NextOk)
\* written without the colour arithmetic.
CanAdvance ==
    \/ pc \in {"makedirs", "loop", "font", "text"}
    \/ pc = "save" /\ dirExists

Advance ==
    /\ CanAdvance
    /\ pc' \in {"loop", "font", "text", "save", "done", "aborted"}
    /\ pc' # pc

OkSpec == Init /\ [][NextOk]_vars /\ WF_pc(Advance)

(***************************************************************************)
(* adjust_hue applied to sampled colours and shifts, and then applied      *)
(* again with the complementary shift (1.0 - s) % 1.0.                     *)
(***************************************************************************)
HueInit ==
    /\ BatchIdle
    /\ hpc = "input"
    /\ hcolor \in Colors
    /\ hshift \in Shifts
    /\ hout = NoColor
    /\ hback = NoColor

Rotate ==
    /\ hpc = "input"
    /\ hout' = adjust_hue(hcolor, hshift)
    /\ hpc' = "rotated"
    /\ UNCHANGED <<hcolor, hshift, hback>>
    /\ UNCHANGED batchVars

RotateBack ==
    /\ hpc = "rotated"
    /\ hback' = adjust_hue(hout, FMod1(FSub(F1, hshift)))
    /\ hpc' = "back"
    /\ UNCHANGED <<hcolor, hshift, hout>>
    /\ UNCHANGED batchVars

HueNext == Rotate \/ RotateBack

HueSpec == HueInit /\ [][HueNext]_vars

(***************************************************************************)
(* Properties.                                                             *)
(***************************************************************************)
Abs(n) == IF n < 0 THEN -n ELSE n
Max3(c) == IF c[1] >= c[2] /\ c[1] >= c[3] THEN c[1] ELSE IF c[2] >= c[3] THEN c[2] ELSE c[3]
Min3(c) == IF c[1] <= c[2] /\ c[1] <= c[3] THEN c[1] ELSE IF c[2] <= c[3] THEN c[2] ELSE c[3]
FLess(x, y) == FCmp(x, y) < 0
Rendering == pc \in {"font", "text", "save"}
IconPaths(n) == { <<"icons", k>> : k \in 1..n }

\* C1: when neither the directory creation nor a file write fails, the
\* script terminates, and at termination the files written are exactly
\* icons/icon_1.ico .. icons/icon_20.ico, each index written once to its own
\* path, and nothing else.
C1_ExactlyTwentyFiles ==
    /\ <>(pc = "done")
    /\ [](pc = "done" =>
            /\ printed
            /\ DOMAIN fs = IconPaths(20)
            /\ Len(written) = 20
            /\ \A k \in 1..20 : written[k][1] = <<"icons", k>>)

C1_Witness == pc = "done" /\ printed /\ Cardinality(DOMAIN fs) = 20 /\ Len(calls) = 20

\* C2: once the save of index k has failed the script is stopped: exactly
\* the renders 1..k were started, no file beyond icon_(k-1) exists, the
\* message is not printed and the files of 1..k-1 are as they were written.
C2_WriteFailureAborts ==
    failedAt # 0 =>
        /\ pc = "aborted"
        /\ ~printed
        /\ Len(calls) = failedAt
        /\ \A k \in 1..Len(calls) : calls[k].number = k
        /\ DOMAIN fs = IconPaths(failedAt - 1)
        /\ Len(written) = failedAt - 1
        /\ \A k \in 1..Len(written) :
              /\ written[k][1] = <<"icons", k>>
              /\ fs[written[k][1]] = written[k][2]

C2_Witness == pc = "aborted" /\ failedAt = 7 /\ Cardinality(DOMAIN fs) = 6

\* C3 as stated: every shift passed to the renderer is strictly between 0
\* and 1, and the shifts strictly increase with the index.
C3_ShiftInsideOpenInterval ==
    \A k \in 1..Len(calls) :
        /\ FLess(FZero, calls[k].hue_shift)
        /\ FLess(calls[k].hue_shift, F1)
        /\ k > 1 => FLess(calls[k - 1].hue_shift, calls[k].hue_shift)

\* C3 amended: the shifts strictly increase with the index and lie in
\* (0, 1]; they are below 1 for the indices 1..19 and exactly 1.0 for index
\* 20, which adjust_hue reduces modulo 1.0 to 0.0.
C3_ShiftInHalfOpenInterval ==
    \A k \in 1..Len(calls) :
        /\ FLess(FZero, calls[k].hue_shift)
        /\ k > 1 => FLess(calls[k - 1].hue_shift, calls[k].hue_shift)
        /\ calls[k].number < 20 => FLess(calls[k].hue_shift, F1)
        /\ calls[k].number = 20 =>
              calls[k].hue_shift = F1 /\ FMod1(calls[k].hue_shift) = FZero

C3_Witness == Len(calls) = 20 /\ pc = "font" /\ hue_shift = F1

C5_OuterColoursDiffer ==
    \A p \in DOMAIN fs : \A q \in DOMAIN fs :
        p # q => \A b \in 1..3 : fs[p].sectors[b] # fs[q].sectors[b]

C5_Witness == Cardinality(DOMAIN fs) = 20 /\ pc = "loop"

\* C6 as stated: a shift of exactly 0.0 or 1.0 returns the colour
\* unchanged; for a shift in [0, 1) the largest and the smallest channel
\* (value, and value * (1 - saturation)) move by at most one unit and every
\* channel is in 0..255.
C6_IdentityAndSaturationValue ==
    hpc \in {"rotated", "back"} =>
        /\ (hshift = FZero \/ hshift = F1) => hout = hcolor
        /\ FLess(hshift, F1) =>
              /\ Abs(Max3(hout) - Max3(hcolor)) <= 1
              /\ Abs(Min3(hout) - Min3(hcolor)) <= 1
              /\ \A ch \in 1..3 : hout[ch] \in 0..255

\* C7 as stated: rotating by s in [0, 1) and then by (1.0 - s) % 1.0
\* returns every channel to within 1 of the original.
C7_RoundTripWithinOne ==
    (hpc = "back" /\ FLess(hshift, F1)) =>
        \A ch \in 1..3 : Abs(hback[ch] - hcolor[ch]) <= 1

\* C8: the directory exists before the first render; renders start in index
\* order, files are written in index order, the files present are exactly
\* icon_1 .. icon_k for the k saves completed, and a render is in progress
\* exactly when one more call than saves has been made.
C8_StrictlySequential ==
    /\ calls # <<>> => dirExists
    /\ \A k \in 1..Len(calls) : calls[k].number = k
    /\ \A k \in 1..Len(written) : written[k][1] = <<"icons", k>>
    /\ DOMAIN fs = IconPaths(Len(written))
    /\ Len(calls) - Len(written) \in {0, 1}
    /\ (Len(calls) = Len(written) + 1) <=> (Rendering \/ failedAt # 0)
    /\ Rendering => i = Len(calls)

C8_Witness == pc = "text" /\ i = 12 /\ Len(written) = 11

\* C9: when arialbd.ttf cannot be opened, every render uses the default
\* font, still draws its label and reaches the save, the script never
\* stops early, and all 20 files are produced.
C9_FontFallback ==
    ~fontInstalled =>
        /\ [](pc \in {"text", "save"} => font = "default")
        /\ [](pc = "save" =>
                /\ Len(canvas) = 7
                /\ canvas[7].op = "text"
                /\ canvas[7].arg = <<i>>)
        /\ [](pc # "aborted")
        /\ <>(pc = "done" /\ DOMAIN fs = IconPaths(20))

C9_Witness == ~fontInstalled /\ pc = "save" /\ font = "default" /\ i = 20

\* C10 as stated: the white text is placed so that a box of the measured
\* width and height is centred on (128, 128) to within one pixel in both
\* directions, and the shadow is drawn before it, 2 pixels right and down.
C10_CentredBothWays ==
    pc = "save" =>
        /\ Abs(2 * canvas[7].xy[1] + text_w(measured) - 256) <= 2
        /\ Abs(2 * canvas[7].xy[2] + text_h(measured) - 256) <= 2
        /\ canvas[6].fill = <<0, 0, 0, 128>>
        /\ canvas[7].fill = <<255, 255, 255>>
        /\ canvas[6].xy = <<canvas[7].xy[1] + 2, canvas[7].xy[2] + 2>>

\* C10 amended: the white text is placed at (128 - w div 2,
\* 128 - h div 2 - 8): centred horizontally to within one pixel, and 8
\* pixels above the vertically centred position; the shadow is drawn before
\* it, 2 pixels right and down.
C10_CentredHorizontallyRaisedEight ==
    pc = "save" =>
        /\ canvas[7].xy = <<128 - text_w(measured) \div 2,
                            128 - text_h(measured) \div 2 - 8>>
        /\ Abs(2 * canvas[7].xy[1] + text_w(measured) - 256) <= 1
        /\ Abs(2 * (canvas[7].xy[2] + 8) + text_h(measured) - 256) <= 1
        /\ canvas[6].fill = <<0, 0, 0, 128>>
        /\ canvas[7].fill = <<255, 255, 255>>
        /\ canvas[6].xy = <<canvas[7].xy[1] + 2, canvas[7].xy[2] + 2>>

C10_Witness == pc = "save" /\ text_w(measured) = 3 /\ text_h(measured) = 2 /\ font = "arialbd.ttf"

====
